---- MODULE Spec2Model ----
(***************************************************************************)
(* Model of src/parser.py: the tokenizer, the token cursor (class Tokens), *)
(* the node class (ParseNode) and the recursive-descent tree builder       *)
(* (Parser.build_tree, Parser.parse).                                      *)
(*                                                                         *)
(* A Python string is the sequence of its characters' code points, so that *)
(* concatenation ('/' + token) and tokenizing are computed, not assumed.   *)
(* Token positions keep the source's 0-based values (token_idx starts at   *)
(* -1); tokens[i] of the source is tokens[i + 1] here.                     *)
(***************************************************************************)
EXTENDS Integers, Sequences, FiniteSets, TLC

VARIABLES
    tstring,    \* the expression handed to Parser.parse (empty before the call)
    status,     \* "init" | "running" | "returned" | "ParseError" | "Exception"
    stack,      \* the call stack of build_tree, innermost call last
    heap,       \* every ParseNode constructed so far, in construction order
    result,     \* the list Parser.parse returns (node ids)
    err         \* the exception raised, once status is an error

vars == <<tstring, status, stack, heap, result, err>>

----------------------------------------------------------------------------
(* Bounds of the model: the inputs are concatenations of chunks.           *)

MaxSegs == 3
MaxFaults == 1
MaxAlts == 2

(* Python values *)
NoToken == <<>>      \* None as a token (Tokens.cur_token / next_token)
NoType == -1         \* None as a token type (Tokens.cur_type / next_type)
NoNode == 0          \* None as a node reference (parent of the root)

TOKEN_IDENTIFIER == 0
TOKEN_LEVEL == 1
TOKEN_BEGIN_REPEAT == 2
TOKEN_END_REPEAT == 3
TOKEN_REPEAT_OR == 4
TOKEN_BEGIN_TYPE == 5
TOKEN_END_TYPE == 6
TOKEN_END_TOKENS == 20

(* A Python character is modelled by its code point, a string by the       *)
(* sequence of its code points.  Printable is chr(32) .. chr(126) in       *)
(* order, so that the literals of the source can be written as characters  *)
(* (chr(96) cannot be written in a string of this language: the empty      *)
(* string holds its place).                                                *)
Printable ==
    <<
    " ", "!", "\"", "#", "$", "%", "&", "'", "(", ")", "*", "+", ",", "-",
    ".", "/", "0", "1", "2", "3", "4", "5", "6", "7", "8", "9", ":", ";",
    "<", "=", ">", "?", "@", "A", "B", "C", "D", "E", "F", "G", "H", "I",
    "J", "K", "L", "M", "N", "O", "P", "Q", "R", "S", "T", "U", "V", "W",
    "X", "Y", "Z", "[", "\\", "]", "^", "_", "", "a", "b", "c", "d", "e",
    "f", "g", "h", "i", "j", "k", "l", "m", "n", "o", "p", "q", "r", "s",
    "t", "u", "v", "w", "x", "y", "z", "{", "|", "}", "~"
    >>

ord(c) == 31 + CHOOSE i \in DOMAIN Printable : Printable[i] = c

(* a string literal of the source, given by its characters *)
Str(chars) == [i \in DOMAIN chars |-> ord(chars[i])]

(* str.isalnum() on one character: the maximal runs lo..hi of code points  *)
(* c in 0 .. 1114111 with chr(c).isalnum() true (Unicode letters, decimal  *)
(* digits, digits and numerics of every script; CPython 3.11)              *)
AlnumRanges ==
    <<
    <<48, 57>>, <<65, 90>>, <<97, 122>>, <<170, 170>>, <<178, 179>>,
    <<181, 181>>, <<185, 186>>, <<188, 190>>, <<192, 214>>, <<216, 246>>,
    <<248, 705>>, <<710, 721>>, <<736, 740>>, <<748, 748>>, <<750, 750>>,
    <<880, 884>>, <<886, 887>>, <<890, 893>>, <<895, 895>>, <<902, 902>>,
    <<904, 906>>, <<908, 908>>, <<910, 929>>, <<931, 1013>>, <<1015, 1153>>,
    <<1162, 1327>>, <<1329, 1366>>, <<1369, 1369>>, <<1376, 1416>>,
    <<1488, 1514>>, <<1519, 1522>>, <<1568, 1610>>, <<1632, 1641>>,
    <<1646, 1647>>, <<1649, 1747>>, <<1749, 1749>>, <<1765, 1766>>,
    <<1774, 1788>>, <<1791, 1791>>, <<1808, 1808>>, <<1810, 1839>>,
    <<1869, 1957>>, <<1969, 1969>>, <<1984, 2026>>, <<2036, 2037>>,
    <<2042, 2042>>, <<2048, 2069>>, <<2074, 2074>>, <<2084, 2084>>,
    <<2088, 2088>>, <<2112, 2136>>, <<2144, 2154>>, <<2160, 2183>>,
    <<2185, 2190>>, <<2208, 2249>>, <<2308, 2361>>, <<2365, 2365>>,
    <<2384, 2384>>, <<2392, 2401>>, <<2406, 2415>>, <<2417, 2432>>,
    <<2437, 2444>>, <<2447, 2448>>, <<2451, 2472>>, <<2474, 2480>>,
    <<2482, 2482>>, <<2486, 2489>>, <<2493, 2493>>, <<2510, 2510>>,
    <<2524, 2525>>, <<2527, 2529>>, <<2534, 2545>>, <<2548, 2553>>,
    <<2556, 2556>>, <<2565, 2570>>, <<2575, 2576>>, <<2579, 2600>>,
    <<2602, 2608>>, <<2610, 2611>>, <<2613, 2614>>, <<2616, 2617>>,
    <<2649, 2652>>, <<2654, 2654>>, <<2662, 2671>>, <<2674, 2676>>,
    <<2693, 2701>>, <<2703, 2705>>, <<2707, 2728>>, <<2730, 2736>>,
    <<2738, 2739>>, <<2741, 2745>>, <<2749, 2749>>, <<2768, 2768>>,
    <<2784, 2785>>, <<2790, 2799>>, <<2809, 2809>>, <<2821, 2828>>,
    <<2831, 2832>>, <<2835, 2856>>, <<2858, 2864>>, <<2866, 2867>>,
    <<2869, 2873>>, <<2877, 2877>>, <<2908, 2909>>, <<2911, 2913>>,
    <<2918, 2927>>, <<2929, 2935>>, <<2947, 2947>>, <<2949, 2954>>,
    <<2958, 2960>>, <<2962, 2965>>, <<2969, 2970>>, <<2972, 2972>>,
    <<2974, 2975>>, <<2979, 2980>>, <<2984, 2986>>, <<2990, 3001>>,
    <<3024, 3024>>, <<3046, 3058>>, <<3077, 3084>>, <<3086, 3088>>,
    <<3090, 3112>>, <<3114, 3129>>, <<3133, 3133>>, <<3160, 3162>>,
    <<3165, 3165>>, <<3168, 3169>>, <<3174, 3183>>, <<3192, 3198>>,
    <<3200, 3200>>, <<3205, 3212>>, <<3214, 3216>>, <<3218, 3240>>,
    <<3242, 3251>>, <<3253, 3257>>, <<3261, 3261>>, <<3293, 3294>>,
    <<3296, 3297>>, <<3302, 3311>>, <<3313, 3314>>, <<3332, 3340>>,
    <<3342, 3344>>, <<3346, 3386>>, <<3389, 3389>>, <<3406, 3406>>,
    <<3412, 3414>>, <<3416, 3425>>, <<3430, 3448>>, <<3450, 3455>>,
    <<3461, 3478>>, <<3482, 3505>>, <<3507, 3515>>, <<3517, 3517>>,
    <<3520, 3526>>, <<3558, 3567>>, <<3585, 3632>>, <<3634, 3635>>,
    <<3648, 3654>>, <<3664, 3673>>, <<3713, 3714>>, <<3716, 3716>>,
    <<3718, 3722>>, <<3724, 3747>>, <<3749, 3749>>, <<3751, 3760>>,
    <<3762, 3763>>, <<3773, 3773>>, <<3776, 3780>>, <<3782, 3782>>,
    <<3792, 3801>>, <<3804, 3807>>, <<3840, 3840>>, <<3872, 3891>>,
    <<3904, 3911>>, <<3913, 3948>>, <<3976, 3980>>, <<4096, 4138>>,
    <<4159, 4169>>, <<4176, 4181>>, <<4186, 4189>>, <<4193, 4193>>,
    <<4197, 4198>>, <<4206, 4208>>, <<4213, 4225>>, <<4238, 4238>>,
    <<4240, 4249>>, <<4256, 4293>>, <<4295, 4295>>, <<4301, 4301>>,
    <<4304, 4346>>, <<4348, 4680>>, <<4682, 4685>>, <<4688, 4694>>,
    <<4696, 4696>>, <<4698, 4701>>, <<4704, 4744>>, <<4746, 4749>>,
    <<4752, 4784>>, <<4786, 4789>>, <<4792, 4798>>, <<4800, 4800>>,
    <<4802, 4805>>, <<4808, 4822>>, <<4824, 4880>>, <<4882, 4885>>,
    <<4888, 4954>>, <<4969, 4988>>, <<4992, 5007>>, <<5024, 5109>>,
    <<5112, 5117>>, <<5121, 5740>>, <<5743, 5759>>, <<5761, 5786>>,
    <<5792, 5866>>, <<5870, 5880>>, <<5888, 5905>>, <<5919, 5937>>,
    <<5952, 5969>>, <<5984, 5996>>, <<5998, 6000>>, <<6016, 6067>>,
    <<6103, 6103>>, <<6108, 6108>>, <<6112, 6121>>, <<6128, 6137>>,
    <<6160, 6169>>, <<6176, 6264>>, <<6272, 6276>>, <<6279, 6312>>,
    <<6314, 6314>>, <<6320, 6389>>, <<6400, 6430>>, <<6470, 6509>>,
    <<6512, 6516>>, <<6528, 6571>>, <<6576, 6601>>, <<6608, 6618>>,
    <<6656, 6678>>, <<6688, 6740>>, <<6784, 6793>>, <<6800, 6809>>,
    <<6823, 6823>>, <<6917, 6963>>, <<6981, 6988>>, <<6992, 7001>>,
    <<7043, 7072>>, <<7086, 7141>>, <<7168, 7203>>, <<7232, 7241>>,
    <<7245, 7293>>, <<7296, 7304>>, <<7312, 7354>>, <<7357, 7359>>,
    <<7401, 7404>>, <<7406, 7411>>, <<7413, 7414>>, <<7418, 7418>>,
    <<7424, 7615>>, <<7680, 7957>>, <<7960, 7965>>, <<7968, 8005>>,
    <<8008, 8013>>, <<8016, 8023>>, <<8025, 8025>>, <<8027, 8027>>,
    <<8029, 8029>>, <<8031, 8061>>, <<8064, 8116>>, <<8118, 8124>>,
    <<8126, 8126>>, <<8130, 8132>>, <<8134, 8140>>, <<8144, 8147>>,
    <<8150, 8155>>, <<8160, 8172>>, <<8178, 8180>>, <<8182, 8188>>,
    <<8304, 8305>>, <<8308, 8313>>, <<8319, 8329>>, <<8336, 8348>>,
    <<8450, 8450>>, <<8455, 8455>>, <<8458, 8467>>, <<8469, 8469>>,
    <<8473, 8477>>, <<8484, 8484>>, <<8486, 8486>>, <<8488, 8488>>,
    <<8490, 8493>>, <<8495, 8505>>, <<8508, 8511>>, <<8517, 8521>>,
    <<8526, 8526>>, <<8528, 8585>>, <<9312, 9371>>, <<9450, 9471>>,
    <<10102, 10131>>, <<11264, 11492>>, <<11499, 11502>>, <<11506, 11507>>,
    <<11517, 11517>>, <<11520, 11557>>, <<11559, 11559>>, <<11565, 11565>>,
    <<11568, 11623>>, <<11631, 11631>>, <<11648, 11670>>, <<11680, 11686>>,
    <<11688, 11694>>, <<11696, 11702>>, <<11704, 11710>>, <<11712, 11718>>,
    <<11720, 11726>>, <<11728, 11734>>, <<11736, 11742>>, <<11823, 11823>>,
    <<12293, 12295>>, <<12321, 12329>>, <<12337, 12341>>, <<12344, 12348>>,
    <<12353, 12438>>, <<12445, 12447>>, <<12449, 12538>>, <<12540, 12543>>,
    <<12549, 12591>>, <<12593, 12686>>, <<12690, 12693>>, <<12704, 12735>>,
    <<12784, 12799>>, <<12832, 12841>>, <<12872, 12879>>, <<12881, 12895>>,
    <<12928, 12937>>, <<12977, 12991>>, <<13312, 19903>>, <<19968, 42124>>,
    <<42192, 42237>>, <<42240, 42508>>, <<42512, 42539>>, <<42560, 42606>>,
    <<42623, 42653>>, <<42656, 42735>>, <<42775, 42783>>, <<42786, 42888>>,
    <<42891, 42954>>, <<42960, 42961>>, <<42963, 42963>>, <<42965, 42969>>,
    <<42994, 43009>>, <<43011, 43013>>, <<43015, 43018>>, <<43020, 43042>>,
    <<43056, 43061>>, <<43072, 43123>>, <<43138, 43187>>, <<43216, 43225>>,
    <<43250, 43255>>, <<43259, 43259>>, <<43261, 43262>>, <<43264, 43301>>,
    <<43312, 43334>>, <<43360, 43388>>, <<43396, 43442>>, <<43471, 43481>>,
    <<43488, 43492>>, <<43494, 43518>>, <<43520, 43560>>, <<43584, 43586>>,
    <<43588, 43595>>, <<43600, 43609>>, <<43616, 43638>>, <<43642, 43642>>,
    <<43646, 43695>>, <<43697, 43697>>, <<43701, 43702>>, <<43705, 43709>>,
    <<43712, 43712>>, <<43714, 43714>>, <<43739, 43741>>, <<43744, 43754>>,
    <<43762, 43764>>, <<43777, 43782>>, <<43785, 43790>>, <<43793, 43798>>,
    <<43808, 43814>>, <<43816, 43822>>, <<43824, 43866>>, <<43868, 43881>>,
    <<43888, 44002>>, <<44016, 44025>>, <<44032, 55203>>, <<55216, 55238>>,
    <<55243, 55291>>, <<63744, 64109>>, <<64112, 64217>>, <<64256, 64262>>,
    <<64275, 64279>>, <<64285, 64285>>, <<64287, 64296>>, <<64298, 64310>>,
    <<64312, 64316>>, <<64318, 64318>>, <<64320, 64321>>, <<64323, 64324>>,
    <<64326, 64433>>, <<64467, 64829>>, <<64848, 64911>>, <<64914, 64967>>,
    <<65008, 65019>>, <<65136, 65140>>, <<65142, 65276>>, <<65296, 65305>>,
    <<65313, 65338>>, <<65345, 65370>>, <<65382, 65470>>, <<65474, 65479>>,
    <<65482, 65487>>, <<65490, 65495>>, <<65498, 65500>>, <<65536, 65547>>,
    <<65549, 65574>>, <<65576, 65594>>, <<65596, 65597>>, <<65599, 65613>>,
    <<65616, 65629>>, <<65664, 65786>>, <<65799, 65843>>, <<65856, 65912>>,
    <<65930, 65931>>, <<66176, 66204>>, <<66208, 66256>>, <<66273, 66299>>,
    <<66304, 66339>>, <<66349, 66378>>, <<66384, 66421>>, <<66432, 66461>>,
    <<66464, 66499>>, <<66504, 66511>>, <<66513, 66517>>, <<66560, 66717>>,
    <<66720, 66729>>, <<66736, 66771>>, <<66776, 66811>>, <<66816, 66855>>,
    <<66864, 66915>>, <<66928, 66938>>, <<66940, 66954>>, <<66956, 66962>>,
    <<66964, 66965>>, <<66967, 66977>>, <<66979, 66993>>, <<66995, 67001>>,
    <<67003, 67004>>, <<67072, 67382>>, <<67392, 67413>>, <<67424, 67431>>,
    <<67456, 67461>>, <<67463, 67504>>, <<67506, 67514>>, <<67584, 67589>>,
    <<67592, 67592>>, <<67594, 67637>>, <<67639, 67640>>, <<67644, 67644>>,
    <<67647, 67669>>, <<67672, 67702>>, <<67705, 67742>>, <<67751, 67759>>,
    <<67808, 67826>>, <<67828, 67829>>, <<67835, 67867>>, <<67872, 67897>>,
    <<67968, 68023>>, <<68028, 68047>>, <<68050, 68096>>, <<68112, 68115>>,
    <<68117, 68119>>, <<68121, 68149>>, <<68160, 68168>>, <<68192, 68222>>,
    <<68224, 68255>>, <<68288, 68295>>, <<68297, 68324>>, <<68331, 68335>>,
    <<68352, 68405>>, <<68416, 68437>>, <<68440, 68466>>, <<68472, 68497>>,
    <<68521, 68527>>, <<68608, 68680>>, <<68736, 68786>>, <<68800, 68850>>,
    <<68858, 68899>>, <<68912, 68921>>, <<69216, 69246>>, <<69248, 69289>>,
    <<69296, 69297>>, <<69376, 69415>>, <<69424, 69445>>, <<69457, 69460>>,
    <<69488, 69505>>, <<69552, 69579>>, <<69600, 69622>>, <<69635, 69687>>,
    <<69714, 69743>>, <<69745, 69746>>, <<69749, 69749>>, <<69763, 69807>>,
    <<69840, 69864>>, <<69872, 69881>>, <<69891, 69926>>, <<69942, 69951>>,
    <<69956, 69956>>, <<69959, 69959>>, <<69968, 70002>>, <<70006, 70006>>,
    <<70019, 70066>>, <<70081, 70084>>, <<70096, 70106>>, <<70108, 70108>>,
    <<70113, 70132>>, <<70144, 70161>>, <<70163, 70187>>, <<70272, 70278>>,
    <<70280, 70280>>, <<70282, 70285>>, <<70287, 70301>>, <<70303, 70312>>,
    <<70320, 70366>>, <<70384, 70393>>, <<70405, 70412>>, <<70415, 70416>>,
    <<70419, 70440>>, <<70442, 70448>>, <<70450, 70451>>, <<70453, 70457>>,
    <<70461, 70461>>, <<70480, 70480>>, <<70493, 70497>>, <<70656, 70708>>,
    <<70727, 70730>>, <<70736, 70745>>, <<70751, 70753>>, <<70784, 70831>>,
    <<70852, 70853>>, <<70855, 70855>>, <<70864, 70873>>, <<71040, 71086>>,
    <<71128, 71131>>, <<71168, 71215>>, <<71236, 71236>>, <<71248, 71257>>,
    <<71296, 71338>>, <<71352, 71352>>, <<71360, 71369>>, <<71424, 71450>>,
    <<71472, 71483>>, <<71488, 71494>>, <<71680, 71723>>, <<71840, 71922>>,
    <<71935, 71942>>, <<71945, 71945>>, <<71948, 71955>>, <<71957, 71958>>,
    <<71960, 71983>>, <<71999, 71999>>, <<72001, 72001>>, <<72016, 72025>>,
    <<72096, 72103>>, <<72106, 72144>>, <<72161, 72161>>, <<72163, 72163>>,
    <<72192, 72192>>, <<72203, 72242>>, <<72250, 72250>>, <<72272, 72272>>,
    <<72284, 72329>>, <<72349, 72349>>, <<72368, 72440>>, <<72704, 72712>>,
    <<72714, 72750>>, <<72768, 72768>>, <<72784, 72812>>, <<72818, 72847>>,
    <<72960, 72966>>, <<72968, 72969>>, <<72971, 73008>>, <<73030, 73030>>,
    <<73040, 73049>>, <<73056, 73061>>, <<73063, 73064>>, <<73066, 73097>>,
    <<73112, 73112>>, <<73120, 73129>>, <<73440, 73458>>, <<73648, 73648>>,
    <<73664, 73684>>, <<73728, 74649>>, <<74752, 74862>>, <<74880, 75075>>,
    <<77712, 77808>>, <<77824, 78894>>, <<82944, 83526>>, <<92160, 92728>>,
    <<92736, 92766>>, <<92768, 92777>>, <<92784, 92862>>, <<92864, 92873>>,
    <<92880, 92909>>, <<92928, 92975>>, <<92992, 92995>>, <<93008, 93017>>,
    <<93019, 93025>>, <<93027, 93047>>, <<93053, 93071>>, <<93760, 93846>>,
    <<93952, 94026>>, <<94032, 94032>>, <<94099, 94111>>, <<94176, 94177>>,
    <<94179, 94179>>, <<94208, 100343>>, <<100352, 101589>>,
    <<101632, 101640>>, <<110576, 110579>>, <<110581, 110587>>,
    <<110589, 110590>>, <<110592, 110882>>, <<110928, 110930>>,
    <<110948, 110951>>, <<110960, 111355>>, <<113664, 113770>>,
    <<113776, 113788>>, <<113792, 113800>>, <<113808, 113817>>,
    <<119520, 119539>>, <<119648, 119672>>, <<119808, 119892>>,
    <<119894, 119964>>, <<119966, 119967>>, <<119970, 119970>>,
    <<119973, 119974>>, <<119977, 119980>>, <<119982, 119993>>,
    <<119995, 119995>>, <<119997, 120003>>, <<120005, 120069>>,
    <<120071, 120074>>, <<120077, 120084>>, <<120086, 120092>>,
    <<120094, 120121>>, <<120123, 120126>>, <<120128, 120132>>,
    <<120134, 120134>>, <<120138, 120144>>, <<120146, 120485>>,
    <<120488, 120512>>, <<120514, 120538>>, <<120540, 120570>>,
    <<120572, 120596>>, <<120598, 120628>>, <<120630, 120654>>,
    <<120656, 120686>>, <<120688, 120712>>, <<120714, 120744>>,
    <<120746, 120770>>, <<120772, 120779>>, <<120782, 120831>>,
    <<122624, 122654>>, <<123136, 123180>>, <<123191, 123197>>,
    <<123200, 123209>>, <<123214, 123214>>, <<123536, 123565>>,
    <<123584, 123627>>, <<123632, 123641>>, <<124896, 124902>>,
    <<124904, 124907>>, <<124909, 124910>>, <<124912, 124926>>,
    <<124928, 125124>>, <<125127, 125135>>, <<125184, 125251>>,
    <<125259, 125259>>, <<125264, 125273>>, <<126065, 126123>>,
    <<126125, 126127>>, <<126129, 126132>>, <<126209, 126253>>,
    <<126255, 126269>>, <<126464, 126467>>, <<126469, 126495>>,
    <<126497, 126498>>, <<126500, 126500>>, <<126503, 126503>>,
    <<126505, 126514>>, <<126516, 126519>>, <<126521, 126521>>,
    <<126523, 126523>>, <<126530, 126530>>, <<126535, 126535>>,
    <<126537, 126537>>, <<126539, 126539>>, <<126541, 126543>>,
    <<126545, 126546>>, <<126548, 126548>>, <<126551, 126551>>,
    <<126553, 126553>>, <<126555, 126555>>, <<126557, 126557>>,
    <<126559, 126559>>, <<126561, 126562>>, <<126564, 126564>>,
    <<126567, 126570>>, <<126572, 126578>>, <<126580, 126583>>,
    <<126585, 126588>>, <<126590, 126590>>, <<126592, 126601>>,
    <<126603, 126619>>, <<126625, 126627>>, <<126629, 126633>>,
    <<126635, 126651>>, <<127232, 127244>>, <<130032, 130041>>,
    <<131072, 173791>>, <<173824, 177976>>, <<177984, 178205>>,
    <<178208, 183969>>, <<183984, 191456>>, <<194560, 195101>>,
    <<196608, 201546>>
    >>

(* the runs below 128 are tested first; the result is that of the runs     *)
isalnum(c) ==
    IF c < 128
    THEN (48 <= c /\ c <= 57) \/ (65 <= c /\ c <= 90) \/ (97 <= c /\ c <= 122)
    ELSE \E i \in DOMAIN AlnumRanges :
            AlnumRanges[i][1] <= c /\ c <= AlnumRanges[i][2]

(* the character and the one-character tokens the source compares with *)
Underscore == ord("_")
Slash == Str(<<"/">>)
LBracket == Str(<<"[">>)
RBracket == Str(<<"]">>)
Bar == Str(<<"|">>)
LBrace == Str(<<"{">>)
RBrace == Str(<<"}">>)

DefaultNodeType == Str(<<"F", "o", "l", "d", "e", "r">>)
RootName == Str(<<"r", "o", "o", "t">>)

----------------------------------------------------------------------------
(* Tokens.tokenize                                                         *)

IsIdentChar(c) == isalnum(c) \/ c = Underscore

RECURSIVE RunEnd(_, _)
(* inner while of tokenize: first position at or after idx that ends the run *)
RunEnd(path, idx) ==
    IF idx <= Len(path) /\ IsIdentChar(path[idx])
    THEN RunEnd(path, idx + 1)
    ELSE idx

RECURSIVE TokenizeFrom(_, _, _)
TokenizeFrom(path, idx, token_list) ==
    IF idx > Len(path) THEN token_list
    ELSE IF IsIdentChar(path[idx])
         THEN TokenizeFrom(path, RunEnd(path, idx),
                           Append(token_list, SubSeq(path, idx, RunEnd(path, idx) - 1)))
         ELSE TokenizeFrom(path, idx + 1, Append(token_list, <<path[idx]>>))

tokenize(path) == TokenizeFrom(path, 1, <<>>)

----------------------------------------------------------------------------
(* Tokens.classify_token                                                   *)

StructuralTokens == {Slash, LBracket, RBracket, Bar, LBrace, RBrace}

(* classify_token raises Exception("Unclassified token", token) *)
ClassifyRaises(token) ==
    /\ token # NoToken
    /\ ~IsIdentChar(token[1])
    /\ token \notin StructuralTokens

classify_token(token) ==
    IF token = NoToken THEN TOKEN_END_TOKENS
    ELSE IF IsIdentChar(token[1]) THEN TOKEN_IDENTIFIER
    ELSE IF token = Slash THEN TOKEN_LEVEL
    ELSE IF token = LBracket THEN TOKEN_BEGIN_REPEAT
    ELSE IF token = RBracket THEN TOKEN_END_REPEAT
    ELSE IF token = Bar THEN TOKEN_REPEAT_OR
    ELSE IF token = LBrace THEN TOKEN_BEGIN_TYPE
    ELSE IF token = RBrace THEN TOKEN_END_TYPE
    ELSE NoType   \* not reached: guarded by ClassifyRaises

----------------------------------------------------------------------------
(* class Tokens: the cursor                                                *)

(* Tokens.__init__ with a token list *)
NewTokens(tokens) ==
    [tokens |-> tokens, token_idx |-> -1, token_type |-> NoType,
     cur_token |-> NoToken, cur_type |-> NoType,
     next_token |-> NoToken, next_type |-> NoType]

(* tokens[i] of the source, for 0 <= i < len(tokens) *)
TokenAt(t, i) == t.tokens[i + 1]

(* variant: the whole token list instead of the rest of it *)
remainderWhole(t) == t.tokens

remainder(t) == SubSeq(t.tokens, t.token_idx + 1, Len(t.tokens))

(* peek_next: the cursor it leaves when classify_token does not raise, and  *)
(* the cursor at the raise (next_token assigned, next_type not) when it does *)
peek_next(t, num_tokens) ==
    IF t.token_idx < Len(t.tokens) - num_tokens
    THEN LET nt == TokenAt(t, t.token_idx + num_tokens)
         IN  IF ClassifyRaises(nt)
             THEN [t EXCEPT !.next_token = nt]
             ELSE [t EXCEPT !.next_token = nt, !.next_type = classify_token(nt)]
    ELSE t

PeekRaises(t, num_tokens) ==
    /\ t.token_idx < Len(t.tokens) - num_tokens
    /\ ClassifyRaises(TokenAt(t, t.token_idx + num_tokens))

(* advance_token: the cursor it leaves (at the raise, when classifying raises) *)
advance_token(t) ==
    LET t1 == [t EXCEPT !.token_idx = @ + 1]
    IN  IF t1.token_idx < Len(t1.tokens)
        THEN LET ct == TokenAt(t1, t1.token_idx)
             IN  IF ClassifyRaises(ct)
                 THEN [t1 EXCEPT !.cur_token = ct]
                 ELSE peek_next([t1 EXCEPT !.cur_token = ct,
                                           !.cur_type = classify_token(ct)], 1)
        ELSE [t1 EXCEPT !.cur_token = NoToken]

(* the token whose classification raises inside advance_token, NoToken if none *)
AdvanceRaisedToken(t) ==
    LET t1 == [t EXCEPT !.token_idx = @ + 1]
    IN  IF t1.token_idx < Len(t1.tokens)
        THEN LET ct == TokenAt(t1, t1.token_idx)
             IN  IF ClassifyRaises(ct) THEN ct
                 ELSE IF PeekRaises([t1 EXCEPT !.cur_token = ct], 1)
                      THEN TokenAt(t1, t1.token_idx + 1)
                      ELSE NoToken
        ELSE NoToken

AdvanceRaises(t) == AdvanceRaisedToken(t) # NoToken

----------------------------------------------------------------------------
(* class ParseNode                                                         *)

(* ParseNode.__init__ / _parsernode_create: the heap with the new node,    *)
(* appended to its parent's children when it has a parent                  *)
_parsernode_create(h, code, node_type, path, parent) ==
    LET id == Len(h) + 1
        node == [code |-> code, node_type |-> node_type, path |-> path,
                 parent |-> parent, children |-> <<>>]
        h1 == Append(h, node)
    IN  IF parent # NoNode
        THEN [h1 EXCEPT ![parent].children = Append(@, id)]
        ELSE h1

----------------------------------------------------------------------------
(* The expressions handed to Parser.parse: concatenations of at most       *)
(* MaxSegs chunks, at most MaxFaults of them lone structural or            *)
(* unclassifiable characters.                                              *)

RECURSIVE Alternatives(_)
Alternatives(k) ==
    IF k = 1 THEN Str(<<"a">>)
    ELSE Alternatives(k - 1) \o Bar
            \o (IF k % 2 = 0 THEN <<233>> ELSE Str(<<"a">>))   \* 233: e acute

RepeatChunk(k) == LBracket \o Alternatives(k) \o RBracket

PlainChunks ==
    {Str(<<"a">>), Slash, Str(<<"{", "a", "}">>), Str(<<"{", "T", "1", "}">>)}
       \cup {RepeatChunk(k) : k \in 1..MaxAlts}

FaultChunks == {LBracket, RBracket, Bar, LBrace, RBrace, Str(<<".">>)}

RECURSIVE Concat(_)
Concat(chunks) ==
    IF chunks = <<>> THEN <<>> ELSE Head(chunks) \o Concat(Tail(chunks))

ChunkLists ==
    UNION {[1..n -> PlainChunks \cup FaultChunks] : n \in 0..MaxSegs}

Expressions ==
    {Concat(cs) : cs \in {c \in ChunkLists :
        Cardinality({i \in DOMAIN c : c[i] \in FaultChunks}) <= MaxFaults}}

----------------------------------------------------------------------------
(* Parser.build_tree: one frame per call                                   *)

Top == stack[Len(stack)]

SetTop(f) == [stack EXCEPT ![Len(stack)] = f]

(* the parameters and locals of build_tree at entry (lines 213-218); n is   *)
(* the position of the for loop of line 265 in repeat_nodes                *)
NewFrame(tokens, node_type, subpath, parent) ==
    [tokens |-> tokens, node_type |-> node_type, subpath |-> subpath,
     parent |-> parent, cur_node_type |-> node_type, cur_node |-> parent,
     current_subpath |-> subpath, node_list |-> <<>>, repeat_nodes |-> <<>>,
     n |-> 0, pc |-> "start"]

(* the path of a node made from a token under a prefix (lines 234, 251, 268) *)
ExtendPath(subpath, token) == subpath \o Slash \o token

(* variant: one cursor shared by the alternatives, used up by the first *)
RecursiveTokensShared(f) ==
    IF f.n = 1 THEN NewTokens(remainder(f.tokens)) ELSE NewTokens(<<>>)

(* the token list of the recursive call for an alternative (line 267) *)
RecursiveTokens(f) == NewTokens(remainder(f.tokens))

(* the parent of the recursive call for alternative node n (line 268) *)
RecursiveParent(f, n) == n

(* variant: the recursive call falls back to the default type *)
RecursiveTypeDefault(f) == DefaultNodeType

(* the node type of the recursive call (line 267) *)
RecursiveType(f) == f.cur_node_type

(* the frame of the recursive call for alternative node n (lines 267-268) *)
RecursiveCall(f, n, code) ==
    NewFrame(RecursiveTokens(f), RecursiveType(f),
             ExtendPath(f.current_subpath, code), RecursiveParent(f, n))

(* variant: the for loop stops one alternative early *)
MoreAlternativesButLast(f) == f.n < Len(f.repeat_nodes)

(* the for loop of line 265 has an alternative left *)
MoreAlternatives(f) == f.n <= Len(f.repeat_nodes)

(* variant: the returned list is put in front *)
ExtendSubNodesFront(node_list, nodes) == nodes \o node_list

(* sub_nodes += the list a recursive call returned (line 267) *)
ExtendSubNodes(node_list, nodes) == node_list \o nodes

(* the node type given to a node created by frame f (lines 235, 250) *)
NodeTypeOf(f) == f.cur_node_type

(* the parent given to a node created by frame f (lines 236, 252) *)
ParentOf(f) == f.cur_node

(* parse_root: the first node constructed (line 295) *)
Root == 1

(* the synthetic root (line 295) *)
ParseRoot ==
    [code |-> RootName, node_type |-> RootName, path |-> <<>>,
     parent |-> NoNode, children |-> <<>>]

(* what parse returns (line 299) *)
ParseResult(root, nodes) == <<root>> \o nodes

(* the tokens advanced over, then control moves to program point p; the    *)
(* plain Exception of classify_token propagates out of parse               *)
AdvanceTo(f, p) ==
    IF AdvanceRaises(f.tokens)
    THEN /\ stack' = SetTop([f EXCEPT !.tokens = advance_token(@)])
         /\ status' = "Exception"
         /\ err' = [args |-> <<"Unclassified token", AdvanceRaisedToken(f.tokens)>>]
    ELSE /\ stack' = SetTop([f EXCEPT !.tokens = advance_token(@), !.pc = p])
         /\ UNCHANGED <<status, err>>

(* raise ParseError(message, tokens.token_idx, tokens.cur_token); the stack *)
(* stays as it is at the raise                                              *)
Raise(message) ==
    /\ status' = "ParseError"
    /\ err' = [message |-> message, index |-> Top.tokens.token_idx,
               token |-> Top.tokens.cur_token]
    /\ UNCHANGED <<stack, heap, result, tstring>>

(* return nodes: to parse (line 296-299) or to the for loop of the caller  *)
(* (line 267: sub_nodes += ...)                                            *)
Return(nodes) ==
    IF Len(stack) = 1
    THEN /\ stack' = <<>>
         /\ result' = ParseResult(Root, nodes)
         /\ status' = "returned"
         /\ UNCHANGED <<heap, err, tstring>>
    ELSE /\ stack' = [SubSeq(stack, 1, Len(stack) - 1) EXCEPT ![Len(stack) - 1] =
                        [@ EXCEPT !.node_list = ExtendSubNodes(@, nodes), !.n = @ + 1,
                                  !.pc = "rep_for"]]
         /\ UNCHANGED <<heap, result, status, err, tstring>>

Running == status = "running" /\ stack # <<>>

(* at the dispatch on tokens.cur_type of line 233 *)
AtDispatch ==
    /\ Running
    /\ \/ Top.pc = "dispatch"
       \/ /\ Top.pc = "loop"
          /\ Top.tokens.cur_token # NoToken
          /\ Top.tokens.cur_type # TOKEN_LEVEL

(* variant: the check names the followers to refuse *)
FollowerNotRefused(t) ==
    t.next_type \notin {TOKEN_LEVEL, TOKEN_END_REPEAT, TOKEN_REPEAT_OR, TOKEN_END_TYPE}

(* the condition of lines 225-227 *)
FollowerAccepted(t) ==
    \/ t.next_type = TOKEN_IDENTIFIER
    \/ t.next_type = TOKEN_BEGIN_REPEAT
    \/ t.next_type = TOKEN_BEGIN_TYPE

----------------------------------------------------------------------------
Init ==
    /\ tstring = <<>>
    /\ status = "init"
    /\ stack = <<>>
    /\ heap = <<>>
    /\ result = <<>>
    /\ err = [args |-> <<>>]

(* parse is called with an expression: lines 293-296 *)
ParseCall ==
    /\ status = "init"
    /\ \E expression \in Expressions :
          /\ tstring' = expression
          /\ stack' = <<NewFrame(NewTokens(tokenize(expression)), DefaultNodeType,
                                 <<>>, Root)>>
    /\ heap' = <<ParseRoot>>
    /\ status' = "running"
    /\ UNCHANGED <<result, err>>

(* build_tree, lines 214-220 *)
BuildTreeEnter ==
    /\ Running /\ Top.pc = "start"
    /\ AdvanceTo(Top, "loop")
    /\ UNCHANGED <<tstring, heap, result>>

(* lines 222 and 290: the while loop ends *)
WhileExit ==
    /\ Running /\ Top.pc = "loop"
    /\ Top.tokens.cur_token = NoToken
    /\ Return(Top.node_list)

(* lines 224-228 *)
LevelRaise ==
    /\ Running /\ Top.pc = "loop"
    /\ Top.tokens.cur_token # NoToken
    /\ Top.tokens.cur_type = TOKEN_LEVEL
    /\ ~FollowerAccepted(Top.tokens)
    /\ Raise("")

(* lines 224-230 *)
LevelAdvance ==
    /\ Running /\ Top.pc = "loop"
    /\ Top.tokens.cur_token # NoToken
    /\ Top.tokens.cur_type = TOKEN_LEVEL
    /\ FollowerAccepted(Top.tokens)
    /\ AdvanceTo(Top, "dispatch")
    /\ UNCHANGED <<tstring, heap, result>>

(* lines 233-239 and 288 *)
Identifier ==
    /\ AtDispatch
    /\ Top.tokens.cur_type = TOKEN_IDENTIFIER
    /\ LET f == Top
           path == ExtendPath(f.current_subpath, f.tokens.cur_token)
           node == Len(heap) + 1
       IN  /\ heap' = _parsernode_create(heap, f.tokens.cur_token, NodeTypeOf(f),
                                         path, ParentOf(f))
           /\ AdvanceTo([f EXCEPT !.current_subpath = path,
                                  !.node_list = Append(@, node),
                                  !.cur_node = node], "loop")
    /\ UNCHANGED <<tstring, result>>

(* lines 241-245: the block opens, the first alternative is advanced to *)
BeginRepeat ==
    /\ AtDispatch
    /\ Top.tokens.cur_type = TOKEN_BEGIN_REPEAT
    /\ AdvanceTo([Top EXCEPT !.repeat_nodes = <<>>], "rep_id")
    /\ UNCHANGED <<tstring, heap, result>>

(* lines 247-248 *)
RepeatItemRaise ==
    /\ Running /\ Top.pc = "rep_id"
    /\ Top.tokens.cur_type # TOKEN_IDENTIFIER
    /\ Raise("Expected identifier")

(* lines 250-256 *)
RepeatItem ==
    /\ Running /\ Top.pc = "rep_id"
    /\ Top.tokens.cur_type = TOKEN_IDENTIFIER
    /\ LET f == Top
           node == Len(heap) + 1
       IN  /\ heap' = _parsernode_create(heap, f.tokens.cur_token, NodeTypeOf(f),
                                         ExtendPath(f.current_subpath, f.tokens.cur_token),
                                         ParentOf(f))
           /\ AdvanceTo([f EXCEPT !.repeat_nodes = Append(@, node)], "rep_sep")
    /\ UNCHANGED <<tstring, result>>

(* lines 258-260 *)
RepeatSepRaise ==
    /\ Running /\ Top.pc = "rep_sep"
    /\ Top.tokens.cur_type # TOKEN_REPEAT_OR
    /\ Top.tokens.cur_type # TOKEN_END_REPEAT
    /\ Raise("Expected ']' in repeat block.")

(* lines 258, 244-245: '|', the while loop goes round *)
RepeatOr ==
    /\ Running /\ Top.pc = "rep_sep"
    /\ Top.tokens.cur_type = TOKEN_REPEAT_OR
    /\ AdvanceTo(Top, "rep_id")
    /\ UNCHANGED <<tstring, heap, result>>

(* lines 258-264: ']', the while loop ends and the token after is advanced to *)
EndRepeat ==
    /\ Running /\ Top.pc = "rep_sep"
    /\ Top.tokens.cur_type = TOKEN_END_REPEAT
    /\ AdvanceTo([Top EXCEPT !.n = 1], "rep_for")
    /\ UNCHANGED <<tstring, heap, result>>

(* lines 265-268: the next alternative is listed and build_tree is called on *)
(* the remainder                                                             *)
ForEachAlternative ==
    /\ Running /\ Top.pc = "rep_for"
    /\ MoreAlternatives(Top)
    /\ LET f == Top
           node == f.repeat_nodes[f.n]
       IN  stack' = Append(SetTop([f EXCEPT !.node_list = Append(@, node),
                                            !.pc = "rep_call"]),
                           RecursiveCall(f, node, heap[node].code))
    /\ UNCHANGED <<tstring, status, heap, result, err>>

(* line 270 *)
ReturnSubNodes ==
    /\ Running /\ Top.pc = "rep_for"
    /\ ~MoreAlternatives(Top)
    /\ Return(Top.node_list)

(* line 272-274 *)
BeginType ==
    /\ AtDispatch
    /\ Top.tokens.cur_type = TOKEN_BEGIN_TYPE
    /\ AdvanceTo(Top, "type_id")
    /\ UNCHANGED <<tstring, heap, result>>

(* lines 275-276 *)
TypeIdRaise ==
    /\ Running /\ Top.pc = "type_id"
    /\ Top.tokens.cur_type # TOKEN_IDENTIFIER
    /\ Raise("Expected type identifier.")

(* lines 275-281 *)
TypeId ==
    /\ Running /\ Top.pc = "type_id"
    /\ Top.tokens.cur_type = TOKEN_IDENTIFIER
    /\ AdvanceTo([Top EXCEPT !.cur_node_type = Top.tokens.cur_token], "type_end")
    /\ UNCHANGED <<tstring, heap, result>>

(* lines 282-283 *)
TypeEndRaise ==
    /\ Running /\ Top.pc = "type_end"
    /\ Top.tokens.cur_type # TOKEN_END_TYPE
    /\ Raise("Expected type end of type.")

(* lines 282 and 288 *)
TypeEnd ==
    /\ Running /\ Top.pc = "type_end"
    /\ Top.tokens.cur_type = TOKEN_END_TYPE
    /\ AdvanceTo(Top, "loop")
    /\ UNCHANGED <<tstring, heap, result>>

(* lines 285-286 *)
UnrecognizedRaise ==
    /\ AtDispatch
    /\ Top.tokens.cur_type # TOKEN_IDENTIFIER
    /\ Top.tokens.cur_type # TOKEN_BEGIN_REPEAT
    /\ Top.tokens.cur_type # TOKEN_BEGIN_TYPE
    /\ Raise("Unrecognized token")

Next ==
    \/ ParseCall
    \/ BuildTreeEnter
    \/ WhileExit
    \/ LevelRaise
    \/ LevelAdvance
    \/ Identifier
    \/ BeginRepeat
    \/ RepeatItemRaise
    \/ RepeatItem
    \/ RepeatSepRaise
    \/ RepeatOr
    \/ EndRepeat
    \/ ForEachAlternative
    \/ ReturnSubNodes
    \/ BeginType
    \/ TypeIdRaise
    \/ TypeId
    \/ TypeEndRaise
    \/ TypeEnd
    \/ UnrecognizedRaise

Spec == Init /\ [][Next]_vars

(* parse is one synchronous call: a step that can be taken is taken *)
FairSpec == Spec /\ WF_vars(Next)

----------------------------------------------------------------------------
(* Vocabulary of the properties: the tree on the heap, the token list of   *)
(* the whole expression.                                                   *)

Nodes == 1..Len(heap)

Returned == status = "returned"

ExprTokens == tokenize(tstring)

RECURSIVE Depth(_)
Depth(n) == IF heap[n].parent = NoNode THEN 0 ELSE 1 + Depth(heap[n].parent)

Range(seq) == {seq[i] : i \in DOMAIN seq}

RECURSIVE Descendants(_)
(* the nodes strictly below n, by the children lists *)
Descendants(n) ==
    Range(heap[n].children) \cup
    UNION {Descendants(heap[n].children[i]) : i \in DOMAIN heap[n].children}

DeepestLeaves ==
    {n \in Nodes : /\ heap[n].children = <<>>
                   /\ \A m \in Nodes : Depth(m) <= Depth(n)}

RECURSIVE AlternativeProduct(_, _, _)
(* the product of the alternative counts of the repeat-blocks of a          *)
(* well-formed token list: k counts the alternatives of the block being read *)
AlternativeProduct(toks, i, k) ==
    IF i > Len(toks) THEN 1
    ELSE IF toks[i] = LBracket THEN AlternativeProduct(toks, i + 1, 1)
    ELSE IF toks[i] = Bar THEN AlternativeProduct(toks, i + 1, k + 1)
    ELSE IF toks[i] = RBracket THEN k * AlternativeProduct(toks, i + 1, 0)
    ELSE AlternativeProduct(toks, i + 1, k)

NumBlocks(toks) == Cardinality({i \in DOMAIN toks : toks[i] = LBracket})

(* C1: when parse returns, the number of deepest leaf nodes of the tree is  *)
(* the product of the alternative counts of all repeat-blocks of the        *)
(* expression; and a call that has parsed a repeat-block stays positioned   *)
(* right after the closing ']' (it consumes nothing after the block) until  *)
(* it returns.                                                              *)
C1_LeafProduct ==
    /\ Returned =>
          Cardinality(DeepestLeaves) = AlternativeProduct(ExprTokens, 1, 0)
    /\ \A k \in DOMAIN stack :
          stack[k].pc \in {"rep_for", "rep_call"} =>
             /\ stack[k].tokens.token_idx >= 3
             /\ TokenAt(stack[k].tokens, stack[k].tokens.token_idx - 1) = RBracket

(* two sequential repeat-blocks of 2 and 1 alternatives were expanded *)
C1_Witness ==
    /\ Returned
    /\ NumBlocks(ExprTokens) = 2
    /\ AlternativeProduct(ExprTokens, 1, 0) = 2
    /\ Cardinality(DeepestLeaves) = 2
    /\ \E n \in DeepestLeaves : Depth(n) >= 2

RECURSIVE LevelTypes(_, _, _, _, _)
(* for a well-formed token list, the type in force at each tree level: one  *)
(* level per identifier outside a type-block and per repeat-block, typed by *)
(* the last type-block before it                                            *)
LevelTypes(toks, i, type, in_block, acc) ==
    IF i > Len(toks) THEN acc
    ELSE IF toks[i] = LBrace
         THEN LevelTypes(toks, i + 3, toks[i + 1], in_block, acc)
    ELSE IF toks[i] = LBracket
         THEN LevelTypes(toks, i + 1, type, TRUE, Append(acc, type))
    ELSE IF toks[i] = RBracket
         THEN LevelTypes(toks, i + 1, type, FALSE, acc)
    ELSE IF toks[i] \in {Slash, Bar} \/ in_block
         THEN LevelTypes(toks, i + 1, type, in_block, acc)
    ELSE LevelTypes(toks, i + 1, type, in_block, Append(acc, type))

ExpectedTypes == LevelTypes(ExprTokens, 1, DefaultNodeType, FALSE, <<>>)

(* C2: type persistence. When parse returns, every node made from a token   *)
(* (every node but the synthetic root) carries the identifier of the last   *)
(* type-block before its token, the default type when there is none.        *)
C2_TypePersistence ==
    Returned =>
       \A n \in Nodes \ {Root} :
          /\ Depth(n) \in DOMAIN ExpectedTypes
          /\ heap[n].node_type = ExpectedTypes[Depth(n)]

(* a type-block, then a block of two alternatives, then a node created by   *)
(* the recursive parse of the remainder, still of the declared type         *)
C2_Witness ==
    /\ Returned
    /\ \E n \in Nodes \ {Root} :
          LET p == heap[n].parent
          IN  /\ p # Root
              /\ Len(heap[heap[p].parent].children) >= 2
              /\ heap[p].node_type = Str(<<"T", "1">>)
              /\ heap[n].node_type = Str(<<"T", "1">>)

RECURSIVE Shape(_, _)
(* the subtree below n as a value: at each position the code, the node type *)
(* and the path with the first `prefix` characters cut off                  *)
Shape(n, prefix) ==
    [i \in DOMAIN heap[n].children |->
        LET c == heap[n].children[i]
        IN  [code |-> heap[c].code, node_type |-> heap[c].node_type,
             path |-> SubSeq(heap[c].path, prefix + 1, Len(heap[c].path)),
             below |-> Shape(c, prefix)]]

(* the places (parent, position) of node n in children lists *)
Places(n) ==
    {pi \in Nodes \X (1..Len(heap)) :
        pi[2] \in DOMAIN heap[pi[1]].children /\ heap[pi[1]].children[pi[2]] = n}

(* C3: when parse returns, every node but the root is in exactly one        *)
(* children list, its parent's, exactly once; the subtrees below two        *)
(* sibling alternatives share no node and have the same shape, codes, node  *)
(* types and paths up to the alternative's own path prefix; and while the   *)
(* remainder is parsed for an alternative, the caller's cursor stays right  *)
(* after the block and the callee reads exactly the tokens after the ']'.   *)
C3_IndependentAlternatives ==
    /\ Returned =>
          /\ \A n \in Nodes \ {Root} :
                /\ Cardinality(Places(n)) = 1
                /\ \A pi \in Places(n) : pi[1] = heap[n].parent
          /\ \A p \in Nodes : \A i, j \in DOMAIN heap[p].children :
                LET a == heap[p].children[i]
                    b == heap[p].children[j]
                IN  i # j =>
                      /\ a # b
                      /\ (Descendants(a) \cup {a}) \cap (Descendants(b) \cup {b}) = {}
                      /\ Len(heap[a].path) = Len(heap[b].path)
                      /\ Shape(a, Len(heap[a].path)) = Shape(b, Len(heap[b].path))
    /\ \A k \in DOMAIN stack :
          (k < Len(stack) /\ Running) =>
             /\ stack[k].pc = "rep_call"
             /\ TokenAt(stack[k].tokens, stack[k].tokens.token_idx - 1) = RBracket
             /\ stack[k + 1].tokens.tokens =
                   SubSeq(stack[k].tokens.tokens, stack[k].tokens.token_idx + 1,
                          Len(stack[k].tokens.tokens))

(* two sibling alternatives, each with its own non-empty subtree *)
C3_Witness ==
    /\ Returned
    /\ \E p \in Nodes :
          /\ Len(heap[p].children) >= 2
          /\ \A i \in DOMAIN heap[p].children :
                heap[heap[p].children[i]].children # <<>>

RECURSIVE JoinedCodes(_)
(* the codes on the walk from the root to n, the root's included, joined    *)
(* with '/'                                                                 *)
JoinedCodes(n) ==
    IF heap[n].parent = NoNode THEN heap[n].code
    ELSE JoinedCodes(heap[n].parent) \o Slash \o heap[n].code

(* C4: the codes from the root (its own included) to a returned node,      *)
(* joined with '/', are the node's path.                                    *)
C4_RoundTripWithRootCode ==
    Returned => \A i \in DOMAIN result : JoinedCodes(result[i]) = heap[result[i]].path

(* C5: the first returned node is the root, with no parent and an empty     *)
(* code, node type and path; the others have a code and a parent.           *)
C5_EmptyRoot ==
    Returned =>
       /\ result[1] = Root
       /\ heap[Root].parent = NoNode
       /\ heap[Root].code = <<>>
       /\ heap[Root].node_type = <<>>
       /\ heap[Root].path = <<>>
       /\ \A i \in 2..Len(result) :
             heap[result[i]].code # <<>> /\ heap[result[i]].parent # NoNode

(* the kind of a token of the expression, NoType when it has none *)
KindOf(token) == IF ClassifyRaises(token) THEN NoType ELSE classify_token(token)

(* the grammar of section 4.4 as an automaton over token kinds: "top" is a  *)
(* position where a level may start or the expression may end               *)
GrammarStep(state, kind) ==
    IF state \in {"top", "level"} /\ kind = TOKEN_IDENTIFIER THEN "top"
    ELSE IF state \in {"top", "level"} /\ kind = TOKEN_BEGIN_REPEAT THEN "alt"
    ELSE IF state \in {"top", "level"} /\ kind = TOKEN_BEGIN_TYPE THEN "type"
    ELSE IF state = "top" /\ kind = TOKEN_LEVEL THEN "level"
    ELSE IF state = "alt" /\ kind = TOKEN_IDENTIFIER THEN "sep"
    ELSE IF state = "sep" /\ kind = TOKEN_REPEAT_OR THEN "alt"
    ELSE IF state = "sep" /\ kind = TOKEN_END_REPEAT THEN "top"
    ELSE IF state = "type" /\ kind = TOKEN_IDENTIFIER THEN "close"
    ELSE IF state = "close" /\ kind = TOKEN_END_TYPE THEN "top"
    ELSE "bad"

RECURSIVE FirstViolationFrom(_, _, _)
(* the 0-based position of the first token of toks that no well-formed      *)
(* expression has after the tokens before it; Len(toks) when the expression *)
(* ends too early; -1 when it is well-formed                                *)
FirstViolationFrom(toks, i, state) ==
    IF i >= Len(toks) THEN (IF state = "top" THEN -1 ELSE Len(toks))
    ELSE IF GrammarStep(state, KindOf(toks[i + 1])) = "bad" THEN i
    ELSE FirstViolationFrom(toks, i + 1, GrammarStep(state, KindOf(toks[i + 1])))

FirstViolation == FirstViolationFrom(ExprTokens, 0, "top")

(* the positions that may be reported for the first violation: the token    *)
(* itself, or the '/' before it when that '/' lacks its follower            *)
ViolationPositions ==
    {FirstViolation} \cup
    {i \in {FirstViolation - 1} : i >= 0 /\ ExprTokens[i + 1] = Slash}

(* C6: error locality. A ParseError carries the position, in the token     *)
(* sequence of the whole expression, of the first token that violates the   *)
(* grammar (a '/' without a follower counting as the violating token), and  *)
(* the token at that position (None past the end).                          *)
C6_ErrorLocality ==
    status = "ParseError" =>
       /\ err.index \in ViolationPositions
       /\ err.token = IF err.index \in 0..(Len(ExprTokens) - 1)
                      THEN ExprTokens[err.index + 1] ELSE NoToken

(* the token after the cursor's current token is an identifier, '[' or '{' *)
ActualFollowerAccepted(t) ==
    /\ t.token_idx + 1 < Len(t.tokens)
    /\ KindOf(TokenAt(t, t.token_idx + 1)) \in
          {TOKEN_IDENTIFIER, TOKEN_BEGIN_REPEAT, TOKEN_BEGIN_TYPE}

(* the token after the cursor's current token cannot be classified *)
FollowerUnclassified(t) ==
    /\ t.token_idx + 1 < Len(t.tokens)
    /\ ClassifyRaises(TokenAt(t, t.token_idx + 1))

(* the builder's cursor is on a '/' it has to deal with (a caller waiting   *)
(* in its for loop leaves the token after ']' to the calls it makes)        *)
AtLevelToken ==
    /\ stack # <<>>
    /\ Top.tokens.cur_token = Slash
    /\ Top.pc \notin {"rep_for", "rep_call"}

(* C7 as stated: on a '/' whose follower is not an identifier, '[' or '{'   *)
(* (or is missing), the parse goes no further and raises a ParseError; no   *)
(* node list is returned when parse raises.                                 *)
C7_LevelFollowerParseError ==
    [][ /\ (AtLevelToken /\ status = "running" /\ ~ActualFollowerAccepted(Top.tokens))
            => status' = "ParseError"
        /\ (AtLevelToken' /\ ~ActualFollowerAccepted(Top'.tokens))
            => status' \in {"running", "ParseError"}
        /\ status' \in {"ParseError", "Exception"} => result' = <<>>
      ]_vars

(* C7 amended: on a '/' whose follower is '/', ']', '|', '}' or missing,    *)
(* the parse goes no further and raises a ParseError; when the follower is  *)
(* a token classify_token cannot classify, advancing to the '/' raises the  *)
(* plain Exception of classify_token instead; a '/' at the head of a loop   *)
(* iteration with an identifier, '[' or '{' after it raises no ParseError;  *)
(* no node list is returned when parse raises.                              *)
C7_LevelFollower ==
    [][ /\ (AtLevelToken /\ status = "running" /\ ~ActualFollowerAccepted(Top.tokens))
            => status' = "ParseError"
        /\ (AtLevelToken' /\ ~ActualFollowerAccepted(Top'.tokens)
                          /\ ~FollowerUnclassified(Top'.tokens))
            => status' \in {"running", "ParseError"}
        /\ (AtLevelToken' /\ FollowerUnclassified(Top'.tokens))
            => status' = "Exception"
        /\ (AtLevelToken /\ status = "running" /\ Top.pc = "loop"
                         /\ ActualFollowerAccepted(Top.tokens))
            => status' # "ParseError"
        /\ status' \in {"ParseError", "Exception"} => result' = <<>>
      ]_vars

(* a ParseError on a '/' that is the last token of a repeat-block remainder *)
C7_Witness ==
    /\ status = "ParseError"
    /\ Len(stack) >= 2
    /\ AtLevelToken
    /\ Top.tokens.token_idx = Len(Top.tokens.tokens) - 1
    /\ err.token = Slash

RECURSIVE Preorder(_)
RECURSIVE PreorderAll(_)
(* the subtree at n, each node followed by the subtrees of its children in  *)
(* children-list order                                                      *)
Preorder(n) == <<n>> \o PreorderAll(heap[n].children)

PreorderAll(kids) ==
    IF kids = <<>> THEN <<>> ELSE Preorder(Head(kids)) \o PreorderAll(Tail(kids))

(* nodes are numbered as they are created: the list is in creation order *)
InCreationOrder(list) == \A i, j \in DOMAIN list : i < j => list[i] < list[j]

(* build_tree is about to return f.node_list (line 290 or line 270) *)
ReturnPoint(f) ==
    \/ f.pc = "loop" /\ f.tokens.cur_token = NoToken
    \/ f.pc = "rep_for" /\ ~MoreAlternatives(f)

(* C8 as stated: the list build_tree returns holds the nodes created at and *)
(* below the call, in the order of their creation.                          *)
C8_CreationOrder ==
    (Running /\ ReturnPoint(Top)) =>
       /\ Range(Top.node_list) = Descendants(Top.parent)
       /\ InCreationOrder(Top.node_list)

(* C8 amended: the list build_tree returns holds every node created at and  *)
(* below the call exactly once, in depth-first order: each alternative's    *)
(* node is followed by its whole subtree before the next alternative's      *)
(* node. It is not the creation order: the nodes of all alternatives of a   *)
(* block are created before any node of their subtrees.                     *)
C8_DepthFirstOrder ==
    /\ (Running /\ ReturnPoint(Top)) =>
          Top.node_list = Tail(Preorder(Top.parent))
    /\ Returned =>
          /\ result = Preorder(Root)
          /\ \A p \in Nodes : \A i, j \in DOMAIN heap[p].children :
                \A d \in Descendants(heap[p].children[i]) :
                   heap[p].children[j] < d

(* a returned list that is not in creation order: a second alternative      *)
(* listed after the subtree of the first                                    *)
C8_Witness ==
    /\ Running /\ ReturnPoint(Top)
    /\ ~InCreationOrder(Top.node_list)
    /\ Len(Top.repeat_nodes) >= 2

(* what the cursor shows agrees with its position: the current token and   *)
(* kind are those at token_idx (None, and the end-of-input kind or no kind, *)
(* past the end), the lookahead those at token_idx + 1 (None past the end) *)
Coherent(t) ==
    /\ IF t.token_idx < Len(t.tokens)
       THEN /\ t.cur_token = TokenAt(t, t.token_idx)
            /\ t.cur_type = classify_token(t.cur_token)
       ELSE /\ t.cur_token = NoToken
            /\ t.cur_type \in {TOKEN_END_TOKENS, NoType}
    /\ IF t.token_idx + 1 < Len(t.tokens)
       THEN /\ t.next_token = TokenAt(t, t.token_idx + 1)
            /\ t.next_type = classify_token(t.next_token)
       ELSE /\ t.next_token = NoToken
            /\ t.next_type = NoType

(* a step in which advance_token ran on the cursor of the running call and  *)
(* returned                                                                 *)
Advanced ==
    /\ Running /\ status' = "running"
    /\ Len(stack') = Len(stack)
    /\ Top'.tokens # Top.tokens

(* C9: after every call of advance_token that returns, the position has     *)
(* grown by one and the current token, its kind, the lookahead token and    *)
(* its kind are those of the new position; nothing of an earlier position   *)
(* is left.                                                                 *)
C9_CursorCoherence ==
    [][Advanced =>
          /\ Top'.tokens.token_idx = Top.tokens.token_idx + 1
          /\ Top'.tokens.tokens = Top.tokens.tokens
          /\ Coherent(Top'.tokens)]_vars

Terminated == status \in {"returned", "ParseError", "Exception"}

(* each call on the stack has a shorter token list than its caller *)
ShorterThanCaller ==
    \A k \in DOMAIN stack :
       k > 1 => Len(stack[k].tokens.tokens) < Len(stack[k - 1].tokens.tokens)

(* the recursion is at most one call deeper than the expression has blocks *)
DepthBound(calls) == Len(calls) <= NumBlocks(ExprTokens) + 1

(* a step that brings the running call back to the head of its while loop   *)
(* has advanced its cursor                                                  *)
LoopProgress ==
    (Running /\ status' = "running" /\ Len(stack') = Len(stack)
             /\ Top'.pc = "loop" /\ Top' # Top)
       => Top'.tokens.token_idx > Top.tokens.token_idx

(* the cursor of a call never moves back *)
NoStepBack ==
    \A k \in DOMAIN stack :
       k \in DOMAIN stack' => stack'[k].tokens.token_idx >= stack[k].tokens.token_idx

(* C10: termination. parse ends, by returning a list or by raising; every   *)
(* pass through the while loop of build_tree advances the cursor; every     *)
(* recursive call has a strictly shorter token list than its caller; the    *)
(* depth of the recursion is at most the number of repeat-blocks plus one.  *)
C10_Termination ==
    /\ <>Terminated
    /\ [][LoopProgress /\ NoStepBack /\ ShorterThanCaller' /\ DepthBound(stack')]_vars

(* parse returned after a recursion three calls deep, one per repeat-block  *)
(* plus one                                                                 *)
C10_Witness ==
    /\ Returned
    /\ NumBlocks(ExprTokens) = 2
    /\ Len(heap) >= 4
    /\ \E n \in Nodes : Depth(n) >= 3

====
